---- MODULE Spec2Model ----
(***************************************************************************)
(* Model of the Nest class of src/nest.py: the credential exchange and its *)
(* cache, the retrying POST transport, the snapshot poll and the device    *)
(* commands.  One host thread drives the object through one public call at *)
(* a time; every call is cut into steps at the points where it reads the   *)
(* running flag or waits for the server, so that terminate() (called from  *)
(* another thread) and the server's answers interleave as in the program.  *)
(*                                                                         *)
(* Time is counted in whole minutes and measured from the current clock    *)
(* reading: cache_expiration holds (expiry instant - now), and Tick, the   *)
(* passage of wall-clock time, lowers it.  The code only ever uses that    *)
(* difference (line 215).  An unset Python attribute (None) is the empty   *)
(* tuple, a set one a 1-tuple or a record in a 1-tuple.                    *)
(***************************************************************************)
EXTENDS Integers, Sequences, FiniteSets, TLC

None == <<>>
Some(v) == <<v>>

(* ------------------------------ bounds --------------------------------- *)
\* how far past its expiry a credential is followed
MaxPast == 25
\* largest retries argument of a direct PostMessageWithRetries call
MaxRetries == 3
\* minutes that pass in one Tick
TickSteps == {27}
\* refresh_time arguments of the constructor
RefreshTimes == {1, 6}
\* values the servers hand out
BearerTokens == {"b1"}
Jwts == {"j1"}
Transports == {"tr1", "tr2"}
DeviceIds == {"A", "Z"}

(* -------------------------- program constants -------------------------- *)
\* 'expire_after': '3600s'
ExpireAfter == 60
\* timedelta.seconds is the seconds part of a delta normalised to days
MinutesPerDay == 1440
\* max(self._refresh_time, 5)
MinMargin == 5
\* retries=2 of the exchange and snapshot POSTs
ExchangeRetries == 2
\* retries=1, the default of PostMessageWithRetries
DefaultRetries == 1
\* retries=2, the default of UpdateNest
UpdateNestRetries == 2

StatusCodes == {200, 401, 404, 500}

VARIABLES
  access_token, access_token_type, id_token,
  nest_user_id, nest_access_token, transport_url, user,
  cache_expiration_text, cache_expiration,
  status, running, nest_access_error, device_list, protect_list,
  refresh_time,
  pc, op, cmd, url, post, i, request, ret, info,
  trace, gnc, seen401

creds == <<access_token, access_token_type, id_token, nest_user_id,
           nest_access_token, transport_url, user, cache_expiration_text>>
bearer == <<access_token, access_token_type, id_token>>
session == <<nest_user_id, nest_access_token, cache_expiration_text>>
launch == <<transport_url, user>>
snap == <<status, device_list, protect_list>>
frame == <<op, cmd, url>>
vars == <<access_token, access_token_type, id_token, nest_user_id,
          nest_access_token, transport_url, user, cache_expiration_text,
          cache_expiration, status, running, nest_access_error, device_list,
          protect_list, refresh_time, pc, op, cmd, url, post, i, request,
          ret, info, trace, gnc, seen401>>

(* ----------------------------- error texts ----------------------------- *)
Err(msg) == <<msg, 0>>
StatusErr(code) == <<"API response status code", code>>
Unforseen == Err("Unforseen exception occured in Nest class")

GetAccessError == IF nest_access_error = None THEN Err("All good")
                  ELSE nest_access_error

(* ------------------------------ the server ----------------------------- *)
Garbage == [garbage |-> TRUE]
NotJson == [not_json |-> TRUE]

\* the failing answers to the bearer GET that are tried, of "logged_out",
\* "error_detail", "other_json", "timeout", "connerr", "http_error", "not_json"
BearerFailures == {"error_detail", "other_json", "timeout"}

\* answers to the bearer GET
BearerResponses ==
  {[kind |-> "tokens", v |-> b] : b \in BearerTokens}
  \cup {[kind |-> k, v |-> ""] : k \in BearerFailures}

\* the expiry text of an answer: with or without fractional seconds, or
\* one that is no timestamp
ExpiryTexts ==
  {[dot |-> d, t |-> ExpireAfter, wellformed |-> TRUE] : d \in BOOLEAN}
  \cup {[dot |-> FALSE, t |-> ExpireAfter, wellformed |-> FALSE]}

IssueJwtBodies ==
  {[nestId |-> "u1", jwt |-> j, expirationTime |-> x] :
     j \in Jwts, x \in ExpiryTexts}
  \cup {Garbage}

AppLaunchBodies ==
  {[transport_url |-> t, updated_buckets |-> bs] :
     t \in Transports,
     bs \in {<<>>, <<[object_key |-> <<"user", "u1">>]>>}}
  \cup {Garbage}

\* the value of a structure bucket, with the fields GetNestInformation reads
Swarm == << <<"device", "A">>, <<"topaz", "B">>, <<"device", "C">> >>
Structure(postal, country) ==
  [swarm |-> Swarm, name |-> "Home", away |-> FALSE, city |-> "Delft",
   country_code |-> country, postal_code |-> postal]

\* a home of two structures, the thermostat A linked to the first
SnapHome ==
  [updated_buckets |-> <<
     [object_key |-> <<"structure", "S1">>,
      value |-> Structure("2611", "NL")],
     [object_key |-> <<"structure", "S2">>,
      value |-> [swarm |-> << <<"topaz", "D">> >>]],
     [object_key |-> <<"link", "A">>,
      value |-> [structure |-> <<"structure", "S1">>]] >>]
SnapBare == [updated_buckets |-> <<>>]
Snapshots == {SnapHome, SnapBare}
StatusBodies == Snapshots \cup {Garbage, NotJson}

Bodies(kind) ==
  CASE kind = "issue_jwt" -> IssueJwtBodies
    [] kind = "app_launch" -> AppLaunchBodies
    [] kind = "status" -> StatusBodies
    [] OTHER -> {Garbage}

\* answers to one POST attempt
Responses(kind) ==
  {[kind |-> "status", code |-> 200, body |-> b] : b \in Bodies(kind)}
  \cup {[kind |-> "status", code |-> c, body |-> Garbage] :
          c \in StatusCodes \ {200}}
  \cup {[kind |-> k, code |-> 0, body |-> Garbage] :
          k \in {"timeout", "connerr"}}

Tag(r) == IF r.kind = "status" THEN ToString(r.code) ELSE r.kind

(* ------------------------------- events -------------------------------- *)
\* what happened (e), to what (k), with what result (r); for a request the
\* bucket written (b), the transport base of its URL (u) and the session
\* token of its Authorization header (a)
Ev(e, k, r, b, u, a) == [e |-> e, k |-> k, r |-> r, b |-> b, u |-> u, a |-> a]
Note(e, k, r) == Ev(e, k, r, "", "", "")

NoOp == [name |-> "none", device_id |-> "", is_away |-> FALSE,
         eco_when_away |-> FALSE, retries |-> 0]
NoPost == [kind |-> "none", retries |-> 0, tags |-> <<>>, result |-> "none"]
NoUrl == [base |-> "", bucket |-> "", id |-> ""]
NoGnc == [exp |-> None, reqs |-> <<>>, done |-> <<>>, ret |-> "none",
          after401 |-> "no", changed |-> FALSE]

Init ==
  /\ access_token = None /\ access_token_type = None /\ id_token = None
  /\ nest_user_id = None /\ nest_access_token = None
  /\ transport_url = None /\ user = None
  /\ cache_expiration_text = None /\ cache_expiration = None
  /\ status = None /\ running = TRUE /\ nest_access_error = None
  /\ device_list = <<>> /\ protect_list = <<>>
  /\ refresh_time \in RefreshTimes
  /\ pc = "idle" /\ op = NoOp /\ cmd = "" /\ url = NoUrl
  /\ post = NoPost /\ i = 0 /\ request = None /\ ret = "none"
  /\ info = None
  /\ trace = <<>> /\ gnc = NoGnc /\ seen401 = "no"

(* --------------------------- return plumbing --------------------------- *)
\* Each step ends in exactly one of these: they set pc, ret, the error text,
\* the trace and the locals of PostMessageWithRetries.
Go(label, err, tr) ==
  /\ pc' = label /\ nest_access_error' = err /\ trace' = tr
  /\ UNCHANGED <<ret, post, i, request>>

\* the public call returns v to the host
FinishPost(name, v, err, tr, p) ==
  /\ pc' = "done" /\ ret' = v /\ nest_access_error' = err
  /\ trace' = Append(tr, Note("return", name, v))
  /\ post' = p /\ UNCHANGED <<i, request>>
FinishAs(name, v, err, tr) == FinishPost(name, v, err, tr, post)
Finish(v, err, tr) == FinishAs(op.name, v, err, tr)

\* faulty variant: UpdateDevices has no except clause
RaisePostUncaught(err, tr, p) == FinishPost(op.name, "raised", err, tr, p)

\* an exception leaves the current function: UpdateDevices catches it
\* (lines 199-202), every other public method lets it through
RaisePost(err, tr, p) ==
  IF op.name = "UpdateDevices"
  THEN FinishPost(op.name, "False", Unforseen,
                  Append(tr, Note("except", op.name, "")), p)
  ELSE FinishPost(op.name, "raised", err, tr, p)
Raise(err, tr) == RaisePost(err, tr, post)

\* PostMessageWithRetries is entered (lines 443-454)
EnterPost(kind, n, err, tr) ==
  /\ pc' = "PostMessageWithRetries"
  /\ post' = [kind |-> kind, retries |-> n, tags |-> <<>>,
              result |-> "running"]
  /\ i' = 0 /\ request' = None /\ nest_access_error' = err
  /\ trace' = Append(tr, Note("post", kind, ToString(n)))
  /\ UNCHANGED ret

\* faulty variant: 'or' for 'and'
EcoFollowsEither(is_away, eco_when_away) == is_away \/ eco_when_away

\* if is_away and eco_when_away (line 416)
EcoFollows(is_away, eco_when_away) == is_away /\ eco_when_away

\* UpdateNest returned v to the command cmd (lines 393, 401, 415-420, 432)
CommandReturn(v, err, tr) ==
  LET tr2 == Append(tr, Note("UpdateNest", cmd, v)) IN
  IF op.name = "SetAway" /\ cmd = "SetAway"
  THEN IF v = "True"
       THEN IF EcoFollows(op.is_away, op.eco_when_away)
            THEN Go("SetEco", err, tr2)
            ELSE Finish("True", err, tr2)
       ELSE Finish("False", err, tr2)
  ELSE IF op.name = "SetAway" /\ cmd = "SetEco"
       THEN Finish("True", err, tr2)
       ELSE Finish(v, err, tr2)

\* retries of the PUT: UpdateNest does not hand its own retries on (line 436)
PutRetries == DefaultRetries

\* faulty variant: the result of GetNestCredentials is not tested
CredentialsIgnored(v) == v # "raised"

\* if self.GetNestCredentials() (lines 197, 435)
CredentialsOk(v) == v = "True"

\* GetNestCredentials returned v (or raised) to UpdateDevices or UpdateNest
GncReturn(v, err, tr, g) ==
  LET tr2 == Append(tr, Note("GetNestCredentials", cmd, v)) IN
  /\ gnc' = [g EXCEPT !.ret = v]
  /\ IF v = "raised" THEN Raise(err, tr2)
     ELSE IF op.name = "UpdateDevices"
          THEN IF CredentialsOk(v) THEN Go("GetDevicesAndStatus", err, tr2)
               ELSE Finish("False", err, tr2)
          ELSE IF CredentialsOk(v) THEN EnterPost("put", PutRetries, err, tr2)
               ELSE CommandReturn("False", err, tr2)

(* -------------------------- the public calls --------------------------- *)
Call(name, d, away, eco, n) ==
  [name |-> name, device_id |-> d, is_away |-> away, eco_when_away |-> eco,
   retries |-> n]
\* the first event of a public call tells whether the running flag was set
Started(name) ==
  <<Note("call", name, IF running THEN "running" ELSE "stopped")>>

\* UpdateDevices (line 195-197)
CallUpdateDevices ==
  /\ pc = "idle"
  /\ op' = Call("UpdateDevices", "", FALSE, FALSE, 0)
  /\ cmd' = "UpdateDevices" /\ url' = NoUrl
  /\ Go("GetNestCredentials", nest_access_error, Started("UpdateDevices"))
  /\ UNCHANGED <<creds, cache_expiration, snap, running, refresh_time, info,
                 gnc, seen401>>

\* self._transport_url + '/v2/put/<bucket>.' + id (lines 388, 396, 408, 423)
PutUrl(bucket, id) == [base |-> transport_url[1], bucket |-> bucket, id |-> id]

\* the bucket a command writes (lines 388, 396, 423)
BucketOf(name) == IF name = "SetEco" THEN "device" ELSE "shared"

\* SetThermostat, SetTemperature, SetEco up to the call of UpdateNest
CallCommand(name, d) ==
  /\ pc = "idle"
  /\ op' = Call(name, d, FALSE, FALSE, 0)
  /\ cmd' = name
  /\ IF transport_url = None
     THEN /\ url' = NoUrl
          /\ FinishAs(name, "raised", nest_access_error, Started(name))
     ELSE /\ url' = PutUrl(BucketOf(name), d)
          /\ Go("GetNestCredentials", nest_access_error, Started(name))
  /\ UNCHANGED <<creds, cache_expiration, snap, running, refresh_time, info,
                 gnc, seen401>>

\* the buckets of the stored snapshot, when it has any
Buckets(st) ==
  IF st # None /\ "updated_buckets" \in DOMAIN st[1]
  THEN st[1].updated_buckets ELSE <<>>

\* [bucket['value']['structure'][10:] ... if object_key == 'link.<id>']
\* (line 405): the structure ids of the link buckets of a device
LinkStructures(st, d) ==
  LET links == SelectSeq(Buckets(st),
                         LAMBDA b : b.object_key = <<"link", d>>)
  IN [k \in 1..Len(links) |-> links[k].value.structure[2]]

\* SetAway up to the call of UpdateNest (lines 403-415): without a link
\* bucket structure_id is unbound and line 408 raises
CallSetAway(d, away, eco) ==
  /\ pc = "idle"
  /\ op' = Call("SetAway", d, away, eco, 0)
  /\ cmd' = "SetAway"
  /\ IF transport_url = None \/ LinkStructures(status, d) = <<>>
     THEN /\ url' = NoUrl
          /\ FinishAs("SetAway", "raised", nest_access_error,
                      Started("SetAway"))
     ELSE /\ url' = PutUrl("structure", LinkStructures(status, d)[1])
          /\ Go("GetNestCredentials", nest_access_error, Started("SetAway"))
  /\ UNCHANGED <<creds, cache_expiration, snap, running, refresh_time, info,
                 gnc, seen401>>

\* self.SetEco(device_id, 'manual-eco') inside SetAway (lines 417, 422-432)
SetEco ==
  /\ pc = "SetEco"
  /\ cmd' = "SetEco" /\ url' = PutUrl("device", op.device_id)
  /\ Go("GetNestCredentials", nest_access_error,
        Append(trace, Note("call", "SetEco", "")))
  /\ UNCHANGED <<creds, cache_expiration, snap, running, refresh_time, info,
                 gnc, seen401, op>>

\* PostMessageWithRetries called by the host with retries = n and the
\* default headers (lines 443-452): 'Basic ' + None raises
CallPost(n) ==
  /\ pc = "idle"
  /\ op' = Call("PostMessageWithRetries", "", FALSE, FALSE, n)
  /\ cmd' = "PostMessageWithRetries" /\ url' = NoUrl
  /\ IF nest_access_token = None
     THEN FinishAs("PostMessageWithRetries", "raised", nest_access_error,
                   Started("PostMessageWithRetries"))
     ELSE EnterPost("direct", n, nest_access_error,
                    Started("PostMessageWithRetries"))
  /\ UNCHANGED <<creds, cache_expiration, snap, running, refresh_time, info,
                 gnc, seen401>>

(* ------------------------- GetNestCredentials -------------------------- *)
Max(a, b) == IF a > b THEN a ELSE b

\* timedelta.seconds / 60, in whole minutes: the part of the delta within
\* one day, a delta below zero counting from the day before
SecondsPart(delta) == delta % MinutesPerDay

\* faulty variant: the comparison turned round
CachedCredentialInverted(exp, rt) ==
  /\ exp # None
  /\ SecondsPart(exp[1]) < Max(rt, MinMargin)

\* lines 214-215: the cached credential is taken as still valid
CachedCredentialValid(exp, rt) ==
  /\ exp # None
  /\ SecondsPart(exp[1]) > Max(rt, MinMargin)

\* lines 209-216
GetNestCredentials ==
  /\ pc = "GetNestCredentials"
  /\ seen401' = "no"
  /\ LET g == [exp |-> cache_expiration, reqs |-> <<>>, done |-> <<>>,
               ret |-> "running", after401 |-> seen401,
               changed |-> FALSE]
     IN IF CachedCredentialValid(cache_expiration, refresh_time)
        THEN GncReturn("True", None, trace, g)
        ELSE gnc' = g /\ Go("GetBearerToken", None, trace)
  /\ UNCHANGED <<creds, cache_expiration, snap, running, refresh_time, info,
                 frame>>

\* lines 116-139: what the answer to the bearer GET leaves in the error text
BearerError(r, err) ==
  CASE r.kind = "tokens" -> None
    [] r.kind = "logged_out" -> Err("API returned error")
    [] r.kind = "error_detail" -> Err("Invalid IssueToken/Cookie")
    [] r.kind = "other_json" -> err
    [] r.kind = "timeout" -> Err("API request timed out")
    [] r.kind = "connerr" -> Err("Connection error API request")
    [] r.kind = "http_error" -> Err("API request failed")
    [] r.kind = "not_json" -> Err("Invalid API response")

\* faulty variant: any JSON answer without error/detail counts as tokens
BearerOkAnyJson(r) == r.kind \in {"tokens", "other_json"}

\* line 123: the answer carries the three token fields
BearerOk(r) == r.kind = "tokens"

\* _GetBearerTokenUsingGoogleCookiesIssue_token (lines 102-139) and its
\* test at line 218
GetBearerToken ==
  /\ pc = "GetBearerToken"
  /\ IF ~running
     THEN /\ GncReturn("False", nest_access_error, trace, gnc)
          /\ UNCHANGED bearer
     ELSE \E r \in BearerResponses :
            LET tr == Append(trace, Ev("request", "bearer", r.kind, "", "", ""))
                g == [gnc EXCEPT !.reqs = Append(@, <<"bearer", r.kind>>)]
                err == BearerError(r, nest_access_error)
            IN IF BearerOk(r)
               THEN /\ access_token' = Some(r.v)
                    /\ access_token_type' = Some("Bearer")
                    /\ id_token' = Some(r.v)
                    /\ gnc' = [g EXCEPT !.done = Append(@, "bearer"),
                                        !.changed = @ \/ bearer' # bearer]
                    /\ Go("UseBearerToken", err, tr)
               ELSE /\ UNCHANGED bearer
                    /\ GncReturn("False", err, tr, g)
  /\ UNCHANGED <<session, launch, cache_expiration, snap, running,
                 refresh_time, info, frame, seen401>>

\* _UseBearerTokenToGetAccessTokenAndUserId up to its POST (lines 141-158)
UseBearerToken ==
  /\ pc = "UseBearerToken"
  /\ IF ~running
     THEN GncReturn("False", nest_access_error, trace, gnc)
     ELSE gnc' = gnc
          /\ EnterPost("issue_jwt", ExchangeRetries, nest_access_error, trace)
  /\ UNCHANGED <<creds, cache_expiration, snap, running, refresh_time, info,
                 frame, seen401>>

\* lines 159-167 and the test at line 220
AfterIssueJwt ==
  /\ pc = "AfterIssueJwt"
  /\ IF request = None
     THEN /\ GncReturn("False", nest_access_error, trace, gnc)
          /\ UNCHANGED session
     ELSE IF "jwt" \in DOMAIN request[1]
          THEN /\ nest_user_id' = Some(request[1].nestId)
               /\ nest_access_token' = Some(request[1].jwt)
               /\ cache_expiration_text' = Some(request[1].expirationTime)
               /\ gnc' = [gnc EXCEPT !.done = Append(@, "session"),
                                     !.changed = @ \/ session' # session]
               /\ Go("GetUser", nest_access_error, trace)
          ELSE /\ GncReturn("raised", nest_access_error, trace, gnc)
               /\ UNCHANGED session
  /\ UNCHANGED <<bearer, launch, cache_expiration, snap, running,
                 refresh_time, info, frame, seen401>>

\* _GetUser up to its POST (lines 169-178)
GetUser ==
  /\ pc = "GetUser"
  /\ IF ~running
     THEN GncReturn("False", nest_access_error, trace, gnc)
     ELSE gnc' = gnc
          /\ EnterPost("app_launch", ExchangeRetries, nest_access_error, trace)
  /\ UNCHANGED <<creds, cache_expiration, snap, running, refresh_time, info,
                 frame, seen401>>

\* faulty variant: without the fallback of lines 189-190
UserKeyNoFallback(old, buckets, uid) ==
  LET found == SelectSeq(buckets, LAMBDA b : b.object_key[1] = "user") IN
  IF found # <<>> THEN Some(found[1].object_key) ELSE old

\* lines 185-190: the first 'user.' bucket, kept from an earlier exchange
\* when there is none, made up from the user id when there never was one
UserKey(old, buckets, uid) ==
  LET found == SelectSeq(buckets, LAMBDA b : b.object_key[1] = "user") IN
  IF found # <<>> THEN Some(found[1].object_key)
  ELSE IF old # None THEN old
  ELSE Some(<<"user", uid[1]>>)

\* lines 179-193 and the test at line 222
AfterAppLaunch ==
  /\ pc = "AfterAppLaunch"
  /\ IF request = None
     THEN /\ GncReturn("False", nest_access_error, trace, gnc)
          /\ UNCHANGED launch
     ELSE IF "transport_url" \in DOMAIN request[1]
          THEN /\ transport_url' = Some(request[1].transport_url)
               /\ user' = UserKey(user, request[1].updated_buckets,
                                  nest_user_id)
               /\ gnc' = [gnc EXCEPT !.done = Append(@, "user"),
                                     !.changed = @ \/ launch' # launch]
               /\ Go("ParseExpiry", nest_access_error, trace)
          ELSE /\ GncReturn("raised", nest_access_error, trace, gnc)
               /\ UNCHANGED launch
  /\ UNCHANGED <<bearer, session, cache_expiration, snap, running,
                 refresh_time, info, frame, seen401>>

\* lines 226-229: the format is picked by the '.' in the text
FormatOf(text) == IF text.dot THEN "%Y-%m-%dT%H:%M:%S.%fZ"
                  ELSE "%Y-%m-%dT%H:%M:%SZ"

\* datetime.strptime (line 230): the instant of a text in its format, no
\* instant (ValueError) when the text does not match
StrpTime(text, format) ==
  IF text.wellformed /\ (text.dot <=> format = "%Y-%m-%dT%H:%M:%S.%fZ")
  THEN Some(text.t) ELSE None

\* lines 225-237
ParseExpiry ==
  /\ pc = "ParseExpiry"
  /\ LET naive == StrpTime(cache_expiration_text[1],
                           FormatOf(cache_expiration_text[1]))
     IN IF naive = None
        THEN /\ GncReturn("raised", nest_access_error, trace, gnc)
             /\ UNCHANGED cache_expiration
        ELSE /\ cache_expiration' = naive
             /\ GncReturn("True", nest_access_error, trace,
                          [gnc EXCEPT !.done = Append(@, "expiry"),
                                      !.changed =
                                        @ \/ naive # cache_expiration])
  /\ UNCHANGED <<creds, snap, running, refresh_time, info, frame, seen401>>

(* ----------------------- PostMessageWithRetries ------------------------ *)
\* faulty variant: only statuses below 400 end the loop
StopRetryingBelow400(code) == code < 400

\* if request.status_code < 500: break (line 469)
StopRetrying(code) == code < 500

\* faulty variant: the wrong status clears the expiry
InvalidatesOn403(code) == code = 403

\* if request.status_code == 401 (line 466)
Invalidates(code) == code = 401

\* faulty variant: a timeout leaves no error text
PostErrorDropsTimeout(r, err) ==
  CASE r.kind \in {"timeout", "connerr"} -> err
    [] r.code = 200 -> None
    [] OTHER -> StatusErr(r.code)

\* lines 462-472: what the answer to a POST leaves in the error text
PostError(r, err) ==
  CASE r.kind = "timeout" -> Err("Connection timeout")
    [] r.kind = "connerr" -> err
    [] r.code = 200 -> None
    [] OTHER -> StatusErr(r.code)

\* the remaining validity exceeds max(refresh_time, 5) minutes
StillValid(exp, rt) == exp # None /\ exp[1] > Max(rt, MinMargin)

\* faulty variant: one attempt too many
MoreAttemptsInclusive(k, retries) == k + 1 <= retries

\* faulty variant: twice the attempts
MoreAttemptsTwice(k, retries) == k + 1 < retries + retries

\* for i in range(retries) (line 454): another attempt follows attempt k
MoreAttempts(k, retries) == k + 1 < retries

InExchange == post.kind \in {"issue_jwt", "app_launch"}

\* PostMessageWithRetries returned req to its caller, after the attempts
\* answered tags
PostReturn(req, err, tr, tags) ==
  LET res == IF req = None THEN "None" ELSE "Response"
      tr2 == Append(tr, Note("posted", post.kind, res))
      p == [post EXCEPT !.tags = tags, !.result = res]
  IN IF post.kind = "direct"
     THEN FinishPost(op.name, res, err, tr2, p)
     ELSE /\ pc' = CASE post.kind = "issue_jwt" -> "AfterIssueJwt"
                     [] post.kind = "app_launch" -> "AfterAppLaunch"
                     [] post.kind = "status" -> "AfterStatus"
                     [] post.kind = "put" -> "AfterPut"
          /\ request' = req /\ nest_access_error' = err /\ trace' = tr2
          /\ post' = p /\ UNCHANGED <<ret, i>>

\* one round of the loop of lines 454-474, and line 476 after the last
PostAttempt ==
  /\ pc = "PostMessageWithRetries"
  /\ IF ~running
     THEN /\ PostReturn(None, nest_access_error, trace, post.tags)
          /\ UNCHANGED <<cache_expiration, gnc, seen401>>
     ELSE \E r \in Responses(post.kind) :
            LET tr == Append(trace,
                        Ev("request", post.kind, Tag(r), url.bucket,
                           url.base,
                           IF nest_access_token = None THEN ""
                           ELSE nest_access_token[1]))
                tags == Append(post.tags, Tag(r))
                hit401 == r.kind = "status" /\ r.code # 200
                          /\ Invalidates(r.code)
                g == IF InExchange
                     THEN [gnc EXCEPT
                             !.reqs = Append(@, <<post.kind, Tag(r)>>),
                             !.changed =
                               @ \/ (hit401 /\ cache_expiration # None)]
                     ELSE gnc
                err == PostError(r, nest_access_error)
                again == /\ pc' = pc /\ i' = i + 1
                         /\ nest_access_error' = err /\ trace' = tr
                         /\ post' = [post EXCEPT !.tags = tags]
                         /\ UNCHANGED <<ret, request>>
                raised == [post EXCEPT !.tags = tags, !.result = "raised"]
            IN /\ cache_expiration' = IF hit401 THEN None
                                      ELSE cache_expiration
               /\ seen401' = IF ~hit401 THEN seen401
                              ELSE IF seen401 = "valid"
                                      \/ StillValid(cache_expiration,
                                                    refresh_time)
                                   THEN "valid" ELSE "lapsed"
               /\ CASE r.kind = "connerr" ->
                         IF InExchange
                         THEN /\ gnc' = [g EXCEPT !.ret = "raised"]
                              /\ RaisePost(err,
                                   Append(tr, Note("GetNestCredentials", cmd,
                                                   "raised")), raised)
                         ELSE gnc' = g /\ RaisePost(err, tr, raised)
                    [] r.kind = "status" /\ r.code = 200 ->
                         gnc' = g /\ PostReturn(Some(r.body), err, tr, tags)
                    [] r.kind = "status" /\ r.code # 200
                       /\ StopRetrying(r.code) ->
                         gnc' = g /\ PostReturn(None, err, tr, tags)
                    [] OTHER ->
                         /\ gnc' = g
                         /\ IF MoreAttempts(i, post.retries) THEN again
                            ELSE PostReturn(None, err, tr, tags)
  /\ UNCHANGED <<creds, snap, running, refresh_time, info, frame>>

(* --------------------------- the snapshot poll ------------------------- *)
\* faulty variant: the list of the poll before is kept
KeptList(old) == old

\* self.device_list = [] and self.protect_list = [] (lines 278-279)
ResetList(old) == <<>>

\* GetDevicesAndStatus before its call of GetStatusUserBuckets
\* (lines 275-280)
GetDevicesAndStatus ==
  /\ pc = "GetDevicesAndStatus"
  /\ IF ~running
     THEN /\ Finish("False", nest_access_error, trace)
          /\ UNCHANGED <<device_list, protect_list>>
     ELSE /\ device_list' = ResetList(device_list)
          /\ protect_list' = ResetList(protect_list)
          /\ Go("GetStatusUserBuckets", nest_access_error, trace)
  /\ UNCHANGED <<creds, cache_expiration, status, running, refresh_time, info,
                 frame, gnc, seen401>>

\* GetStatusUserBuckets up to its POST (lines 239-254)
GetStatusUserBuckets ==
  /\ pc = "GetStatusUserBuckets"
  /\ IF ~running
     THEN Finish("False", nest_access_error, trace)
     ELSE EnterPost("status", ExchangeRetries, nest_access_error, trace)
  /\ UNCHANGED <<creds, cache_expiration, snap, running, refresh_time, info,
                 frame, gnc, seen401>>

\* line 265: the swarm of the first structure bucket, none when no bucket
\* list or no structure bucket is there ([0] raises)
FirstSwarm(body) ==
  IF "updated_buckets" \notin DOMAIN body THEN None
  ELSE LET ss == SelectSeq(body.updated_buckets,
                           LAMBDA b : b.object_key[1] = "structure")
       IN IF ss = <<>> THEN None ELSE Some(ss[1].value.swarm)

\* lines 267 and 269: the ids of the members of one type, in swarm order
Members(swarm, type) ==
  LET ms == SelectSeq(swarm, LAMBDA m : m[1] = type)
  IN [k \in 1..Len(ms) |-> ms[k][2]]

\* lines 255-273, then lines 281-282 and 198
AfterStatus ==
  /\ pc = "AfterStatus"
  /\ IF request = None
     THEN /\ Finish("False", nest_access_error, trace)
          /\ UNCHANGED snap
     ELSE IF request[1] = NotJson
          THEN /\ Raise(nest_access_error, trace)
               /\ UNCHANGED snap
          ELSE /\ status' = request
               /\ LET swarm == FirstSwarm(request[1])
                  IN IF swarm = None
                     THEN UNCHANGED <<device_list, protect_list>>
                     ELSE /\ device_list' = Members(swarm[1], "device")
                          /\ protect_list' = Members(swarm[1], "topaz")
               /\ Finish("True", nest_access_error, trace)
  /\ UNCHANGED <<creds, cache_expiration, running, refresh_time, info, frame,
                 gnc, seen401>>

(* ------------------------------ UpdateNest ----------------------------- *)
\* lines 437-441
AfterPut ==
  /\ pc = "AfterPut"
  /\ CommandReturn(IF request = None THEN "False" ELSE "True",
                   nest_access_error, trace)
  /\ UNCHANGED <<creds, cache_expiration, snap, running, refresh_time, info,
                 frame, gnc, seen401>>

(* ------------------------------ the views ------------------------------ *)
\* info = {}
EmptyInfo == [f \in {} |-> ""]

\* [bucket['value'] for bucket in self._status['updated_buckets']
\*  if bucket['object_key'] == key] (lines 288, 289, 313)
ValuesOf(st, key) ==
  LET bs == SelectSeq(Buckets(st), LAMBDA b : b.object_key = key)
  IN [k \in 1..Len(bs) |-> bs[k].value]

\* wheres[id] of lines 290 and 315: the name of a where of the structure,
\* none (KeyError) when no where bucket of the structure lists the id
WhereName(st, sid, id) ==
  LET ws == ValuesOf(st, <<"where", sid>>)
      NamesIn(w) == {w[j].name : j \in {j \in 1..Len(w) : w[j].where_id = id}}
      names == UNION {NamesIn(ws[k].wheres) : k \in 1..Len(ws)}
  IN IF names = {} THEN None ELSE Some(CHOOSE n \in names : TRUE)

\* the fields lines 293-303 read from the shared and the device bucket
SharedFields ==
  {"target_temperature", "current_temperature", "hvac_heater_state",
   "target_temperature_type", "target_temperature_low",
   "target_temperature_high", "auto_away"}
DeviceFields == {"temperature_scale", "current_humidity", "eco", "where_id"}

\* faulty variant: the fields of the shared bucket are filled in before the
\* device bucket is looked up
ThermostatInformationPartial(st, d) ==
  LET shared == ValuesOf(st, <<"shared", d>>)
  IN IF shared = <<>> \/ ~(SharedFields \subseteq DOMAIN shared[1])
     THEN EmptyInfo
     ELSE [Target_temperature |-> shared[1].target_temperature,
           Current_temperature |-> shared[1].current_temperature,
           Heating |-> shared[1].hvac_heater_state,
           Target_mode |-> shared[1].target_temperature_type,
           Target_temperature_low |-> shared[1].target_temperature_low,
           Target_temperature_high |-> shared[1].target_temperature_high,
           Auto_away |-> shared[1].auto_away]

\* lines 285-308: the dict is built in one expression inside try, so any
\* missing bucket or field leaves info = {}
ThermostatInformation(st, d) ==
  LET links == LinkStructures(st, d)
      shared == ValuesOf(st, <<"shared", d>>)
      device == ValuesOf(st, <<"device", d>>)
  IN IF links = <<>> \/ shared = <<>> \/ device = <<>> THEN EmptyInfo
     ELSE IF ~(SharedFields \subseteq DOMAIN shared[1])
             \/ ~(DeviceFields \subseteq DOMAIN device[1])
          THEN EmptyInfo
          ELSE LET room == WhereName(st, links[1], device[1].where_id)
               IN IF room = None THEN EmptyInfo
                  ELSE [Target_temperature |-> shared[1].target_temperature,
                        Current_temperature |-> shared[1].current_temperature,
                        Temperature_scale |-> device[1].temperature_scale,
                        Humidity |-> device[1].current_humidity,
                        Eco |-> device[1].eco.mode # "schedule",
                        Heating |-> shared[1].hvac_heater_state,
                        Target_mode |-> shared[1].target_temperature_type,
                        Target_temperature_low |->
                          shared[1].target_temperature_low,
                        Target_temperature_high |->
                          shared[1].target_temperature_high,
                        Where |-> room[1],
                        Auto_away |-> shared[1].auto_away]

\* the fields lines 318-325 read from the topaz bucket
TopazFields ==
  {"smoke_status", "co_status", "heat_status", "serial_number",
   "co_previous_peak", "battery_health_state", "battery_level"}

\* line 314: the ids of the structures whose swarm holds the protect
SwarmStructures(st, d) ==
  LET ss == SelectSeq(Buckets(st),
              LAMBDA b : /\ b.object_key[1] = "structure"
                         /\ \E k \in 1..Len(b.value.swarm) :
                              b.value.swarm[k] = <<"topaz", d>>)
  IN [k \in 1..Len(ss) |-> ss[k].object_key[2]]

\* lines 311-330
ProtectInformation(st, d) ==
  LET device == ValuesOf(st, <<"topaz", d>>)
      sids == SwarmStructures(st, d)
  IN IF device = <<>> \/ sids = <<>> THEN EmptyInfo
     ELSE IF ~(TopazFields \subseteq DOMAIN device[1]) THEN EmptyInfo
     ELSE IF {"spoken_where_id", "where_id"} \cap DOMAIN device[1] = {}
          THEN EmptyInfo
          ELSE LET id == IF "spoken_where_id" \in DOMAIN device[1]
                         THEN device[1].spoken_where_id
                         ELSE device[1].where_id
                   room == WhereName(st, sids[1], id)
               IN IF room = None THEN EmptyInfo
                  ELSE [Smoke_status |-> device[1].smoke_status,
                        Co_status |-> device[1].co_status,
                        Heat_status |-> device[1].heat_status,
                        Serial_number |-> device[1].serial_number,
                        Co_previous_peak |-> device[1].co_previous_peak,
                        Where |-> room[1],
                        Battery_low |-> device[1].battery_health_state,
                        Battery_level |-> device[1].battery_level]

\* the fields lines 338-342 read from the structure bucket
StructureFields == {"name", "away", "city", "country_code", "postal_code"}

\* lines 333-348
NestInformation(st) ==
  LET ss == SelectSeq(Buckets(st), LAMBDA b : b.object_key[1] = "structure")
  IN IF ss = <<>> THEN EmptyInfo
     ELSE IF ~(StructureFields \subseteq DOMAIN ss[1].value) THEN EmptyInfo
          ELSE [Name |-> ss[1].value.name,
                Away |-> ss[1].value.away,
                City |-> ss[1].value.city,
                Country_code |-> ss[1].value.country_code,
                Postal_code |-> ss[1].value.postal_code]

\* a view returns its dict to the host; nothing of the object is written
ReturnInfo(name, d, dict) ==
  /\ pc = "idle"
  /\ op' = Call(name, d, FALSE, FALSE, 0) /\ cmd' = name /\ url' = NoUrl
  /\ info' = Some(dict)
  /\ FinishAs(name, "info", nest_access_error, Started(name))
  /\ UNCHANGED <<creds, cache_expiration, snap, running, refresh_time, gnc,
                 seen401>>

GetThermostatInformation(d) ==
  ReturnInfo("GetThermostatInformation", d, ThermostatInformation(status, d))

GetProtectInformation(d) ==
  ReturnInfo("GetProtectInformation", d, ProtectInformation(status, d))

GetNestInformation ==
  ReturnInfo("GetNestInformation", "", NestInformation(status))

(* -------------------------- GetOutsideTempHum -------------------------- *)
\* the answers to the forecast GET that are tried, of "ok", "no_now" (JSON
\* without the 'now' fields), "timeout", "connerr", "http_error", "not_json"
ForecastResponses == {"ok", "no_now", "timeout", "http_error"}

\* lines 377-384
ForecastError(r, err) ==
  CASE r = "timeout" -> Err("API request timed out")
    [] r = "connerr" -> Err("Connection error API request")
    [] r = "http_error" -> Err("API request failed")
    [] r = "not_json" -> Err("Invalid API response")
    [] OTHER -> err

\* line 355, not (both keys in NestInfo) and (one of them == ''): with both
\* keys the test is false and the request follows; without, the second
\* operand is evaluated and subscripts the missing key
BlankTest(NestInfo) ==
  IF {"Postal_code", "Country_code"} \subseteq DOMAIN NestInfo THEN "request"
  ELSE IF "Postal_code" \notin DOMAIN NestInfo THEN "KeyError"
  ELSE IF NestInfo.Postal_code = "" THEN "False"
  ELSE "KeyError"

\* lines 350-385
GetOutsideTempHum ==
  /\ pc = "idle"
  /\ op' = Call("GetOutsideTempHum", "", FALSE, FALSE, 0)
  /\ cmd' = "GetOutsideTempHum" /\ url' = NoUrl
  /\ LET NestInfo == NestInformation(status)
         st == Started("GetOutsideTempHum")
         err == nest_access_error
     IN IF ~running \/ BlankTest(NestInfo) = "False"
        THEN info' = None /\ FinishAs("GetOutsideTempHum", "False", err, st)
        ELSE IF BlankTest(NestInfo) = "KeyError"
        THEN info' = None /\ FinishAs("GetOutsideTempHum", "raised", err, st)
        ELSE \E r \in ForecastResponses :
               LET tr == Append(st, Ev("request", "forecast", r,
                                       NestInfo.Postal_code,
                                       NestInfo.Country_code, ""))
               IN CASE r = "ok" ->
                         /\ info' = Some([City |-> NestInfo.City,
                                          Current_humidity |-> "h",
                                          Current_temperature |-> "t",
                                          Current_wind |-> "w",
                                          Wind_direction |-> "d"])
                         /\ FinishAs("GetOutsideTempHum", "info", err, tr)
                    [] r = "no_now" ->
                         /\ info' = Some(EmptyInfo)
                         /\ FinishAs("GetOutsideTempHum", "info", err, tr)
                    [] OTHER ->
                         /\ info' = None
                         /\ FinishAs("GetOutsideTempHum", "False",
                                     ForecastError(r, err), tr)
  /\ UNCHANGED <<creds, cache_expiration, snap, running, refresh_time, gnc,
                 seen401>>

(* --------------------------- the environment --------------------------- *)
\* terminate (lines 73-74), from another thread, at any point
Terminate ==
  /\ running
  /\ running' = FALSE
  /\ UNCHANGED <<creds, cache_expiration, snap, refresh_time, info,
                 nest_access_error, pc, op, cmd, url, post, i, request, ret,
                 trace, gnc, seen401>>

Later(x, d) == IF x = None THEN None ELSE Some(x[1] - d)

\* d minutes pass between two public calls, or between the two commands of
\* SetAway: the stored expiry is d minutes nearer (datetime.now, line 213).
\* The expiry text is a string and stays as it is; it is read only by the
\* call that stored it (lines 164, 226), within which no time passes.
Tick(d) ==
  /\ pc \in {"idle", "SetEco"}
  /\ cache_expiration # None
  /\ cache_expiration[1] - d >= -MaxPast
  /\ cache_expiration' = Later(cache_expiration, d)
  /\ UNCHANGED <<bearer, session, launch, snap,
                 running, refresh_time, info, nest_access_error, pc, op, cmd, url,
                 post, i, request, ret, trace, gnc, seen401>>

\* the host has taken the result of the call
Resume ==
  /\ pc = "done"
  /\ pc' = "idle" /\ ret' = "none" /\ trace' = <<>> /\ gnc' = NoGnc
  /\ op' = NoOp /\ cmd' = "" /\ url' = NoUrl
  /\ post' = NoPost /\ i' = 0 /\ request' = None /\ info' = None
  /\ UNCHANGED <<creds, cache_expiration, snap, running, refresh_time,
                 nest_access_error, seen401>>

Next ==
  \/ CallUpdateDevices
  \/ \E name \in {"SetThermostat", "SetTemperature", "SetEco"} :
        CallCommand(name, "A")
  \/ \E d \in DeviceIds, away \in BOOLEAN, eco \in BOOLEAN :
        CallSetAway(d, away, eco)
  \/ \E n \in 1..MaxRetries : CallPost(n)
  \/ SetEco
  \/ GetNestCredentials
  \/ GetBearerToken
  \/ UseBearerToken
  \/ AfterIssueJwt
  \/ GetUser
  \/ AfterAppLaunch
  \/ ParseExpiry
  \/ PostAttempt
  \/ GetDevicesAndStatus
  \/ GetStatusUserBuckets
  \/ AfterStatus
  \/ AfterPut
  \/ Terminate
  \/ \E d \in TickSteps : Tick(d)
  \/ GetOutsideTempHum
  \/ Resume

Spec == Init /\ [][Next]_vars

(* ------------------- the views over stored snapshots ------------------- *)
\* The views and GetOutsideTempHum read the stored snapshot only, so they
\* are run on every shape of snapshot a poll can have stored: each bucket
\* present, absent or short of a field.
Bucket(type, id, value) == [object_key |-> <<type, id>>, value |-> value]

FullShared ==
  [target_temperature |-> "21", current_temperature |-> "19",
   hvac_heater_state |-> "on", target_temperature_type |-> "heat",
   target_temperature_low |-> "17", target_temperature_high |-> "24",
   auto_away |-> "0"]
FullDevice ==
  [temperature_scale |-> "C", current_humidity |-> "40",
   eco |-> [mode |-> "schedule"], where_id |-> "w1"]
FullTopaz ==
  [smoke_status |-> "0", co_status |-> "0", heat_status |-> "0",
   serial_number |-> "sn", co_previous_peak |-> "0",
   battery_health_state |-> "0", battery_level |-> "5"]
Without(r, f) == [x \in DOMAIN r \ {f} |-> r[x]]
With(r, f, v) == [x \in DOMAIN r \cup {f} |-> IF x = f THEN v ELSE r[x]]

StructureBuckets ==
  {<<>>,
   <<Bucket("structure", "S1", Structure("2611", "NL"))>>,
   <<Bucket("structure", "S1", Structure("", "NL"))>>,
   <<Bucket("structure", "S1", Structure("2611", ""))>>,
   <<Bucket("structure", "S1", Without(Structure("2611", "NL"),
                                       "postal_code"))>>}
LinkBuckets ==
  {<<>>, <<Bucket("link", "A", [structure |-> <<"structure", "S1">>])>>}
SharedBuckets ==
  {<<>>, <<Bucket("shared", "A", FullShared)>>,
   <<Bucket("shared", "A", Without(FullShared, "auto_away"))>>}
DeviceBuckets ==
  {<<>>, <<Bucket("device", "A", FullDevice)>>,
   <<Bucket("device", "A", Without(FullDevice, "current_humidity"))>>}
WhereBuckets ==
  {<<>>,
   <<Bucket("where", "S1",
            [wheres |-> <<[where_id |-> "w1", name |-> "Hall"]>>])>>}
TopazBuckets ==
  {<<>>,
   <<Bucket("topaz", "B", With(FullTopaz, "where_id", "w1"))>>,
   <<Bucket("topaz", "B", With(FullTopaz, "spoken_where_id", "w1"))>>,
   <<Bucket("topaz", "B", Without(With(FullTopaz, "where_id", "w1"),
                                  "battery_level"))>>}

ViewStatuses ==
  {None, Some(Garbage)}
  \cup {Some([updated_buckets |-> s \o l \o sh \o dv \o w \o t]) :
          s \in StructureBuckets, l \in LinkBuckets, sh \in SharedBuckets,
          dv \in DeviceBuckets, w \in WhereBuckets, t \in TopazBuckets}

\* the lists that the poll which stored st left (lines 265-269, 278-279)
ListOf(st, type) ==
  IF st = None \/ FirstSwarm(st[1]) = None THEN <<>>
  ELSE Members(FirstSwarm(st[1])[1], type)

\* the object after a poll stored one of the snapshots, or before any poll
ViewInit ==
  /\ status \in ViewStatuses
  /\ device_list = ListOf(status, "device")
  /\ protect_list = ListOf(status, "topaz")
  /\ IF status = None
     THEN /\ access_token = None /\ access_token_type = None
          /\ id_token = None /\ nest_user_id = None
          /\ nest_access_token = None /\ transport_url = None
          /\ user = None /\ cache_expiration_text = None
          /\ cache_expiration = None
     ELSE /\ access_token \in {Some(b) : b \in BearerTokens}
          /\ access_token_type = Some("Bearer") /\ id_token = access_token
          /\ nest_user_id = Some("u1")
          /\ nest_access_token \in {Some(j) : j \in Jwts}
          /\ transport_url \in {Some(t) : t \in Transports}
          /\ user = Some(<<"user", "u1">>)
          /\ cache_expiration_text =
               Some([dot |-> FALSE, t |-> ExpireAfter, wellformed |-> TRUE])
          /\ cache_expiration = Some(ExpireAfter)
  /\ running = TRUE /\ nest_access_error = None
  /\ refresh_time \in RefreshTimes
  /\ pc = "idle" /\ op = NoOp /\ cmd = "" /\ url = NoUrl
  /\ post = NoPost /\ i = 0 /\ request = None /\ ret = "none"
  /\ info = None
  /\ trace = <<>> /\ gnc = NoGnc /\ seen401 = "no"

ViewNext ==
  \/ \E d \in DeviceIds : GetThermostatInformation(d)
  \/ \E d \in {"B", "Z"} : GetProtectInformation(d)
  \/ GetNestInformation
  \/ GetOutsideTempHum
  \/ Terminate
  \/ Resume

ViewSpec == ViewInit /\ [][ViewNext]_vars

(* ========================= reading the trace =========================== *)
Idx == 1..Len(trace)
SetMax(S) == CHOOSE x \in S : \A y \in S : y <= x
IsReq(k) == trace[k].e = "request"
ReqIdx == {k \in Idx : IsReq(k)}
Failing == {"500", "timeout"}
ClientCodes == {c \in StatusCodes : c # 200 /\ c < 500}
PutIdx == {k \in ReqIdx : trace[k].k = "put"}
PutsTo(bucket) == {k \in PutIdx : trace[k].b = bucket}
\* the start of the command that event k belongs to
CmdStart(k) == SetMax({j \in 1..k : trace[j].e = "call"})
Commands == {"SetThermostat", "SetTemperature", "SetAway", "SetEco"}
GncKinds == {gnc.reqs[k][1] : k \in 1..Len(gnc.reqs)}
FullExchange == {"bearer", "issue_jwt", "app_launch"} \subseteq GncKinds
GncReturned == gnc.ret \in {"True", "False", "raised"}
Stage(kind) == CASE kind = "bearer" -> 1 [] kind = "issue_jwt" -> 2
                 [] kind = "app_launch" -> 3

(* ============================== C1 ===================================== *)
\* C1: a GetNestCredentials call made while the cached expiry lies more
\* than max(refresh_time, 5) minutes ahead returns success and issues no
\* HTTP request.
C1_CredentialReuse ==
  (gnc.ret # "none" /\ StillValid(gnc.exp, refresh_time))
    => (gnc.ret = "True" /\ gnc.reqs = <<>> /\ gnc.done = <<>>)

\* a call that found the credential of an earlier exchange, some time
\* after it was issued, and reused it
C1_Witness ==
  /\ gnc.ret = "True" /\ gnc.reqs = <<>>
  /\ StillValid(gnc.exp, refresh_time) /\ gnc.exp[1] < ExpireAfter

(* ============================== C2 ===================================== *)
\* C2: GetNestCredentials returns success without running the exchange
\* only if the cached expiry lies more than max(refresh_time, 5) minutes
\* ahead; at or past the expiry it always runs the exchange.
C2_ValidOnlyBeforeExpiry ==
  (gnc.ret = "True" /\ gnc.done = <<>>) => StillValid(gnc.exp, refresh_time)

(* ============================== C3 ===================================== *)
\* the 401 part of C3: a POST answered 401 is the last request of its
\* public call, its PostMessageWithRetries returns None and the cached
\* expiry is cleared.
After401 ==
  \A k \in ReqIdx :
    trace[k].r = "401" =>
      /\ cache_expiration = None
      /\ k = SetMax(ReqIdx)
      /\ \E j \in Idx : j > k /\ trace[j].e = "posted" /\ trace[j].r = "None"

\* C3 as stated: after a 401 the next GetNestCredentials call performs the
\* bearer GET, the session-issue POST and the app-launch POST.
C3_FullReExchangeAfter401 ==
  /\ After401
  /\ (gnc.after401 # "no" /\ GncReturned) => FullExchange

\* C3 amended: after a 401 the next GetNestCredentials call finds no
\* cached expiry and never answers from the cache: it starts with the
\* bearer step, succeeds only after the bearer GET, the session-issue POST
\* and the app-launch POST, and ends without any request only when the
\* running flag is cleared.
C3_ReExchangeAfter401 ==
  /\ After401
  /\ gnc.after401 # "no" =>
       /\ gnc.exp = None
       /\ gnc.reqs # <<>> => gnc.reqs[1][1] = "bearer"
       /\ gnc.ret = "True" =>
            (FullExchange /\ gnc.done = <<"bearer", "session", "user", "expiry">>)
       /\ (GncReturned /\ gnc.reqs = <<>>) => ~running

\* a command's PUT was answered 401 while the credential still had
\* validity left, and the next call went through the whole exchange
C3_Witness ==
  /\ gnc.after401 = "valid" /\ gnc.ret = "True" /\ FullExchange

(* ============================== C4 ===================================== *)
\* the requests of one GetNestCredentials call come in the order bearer,
\* session-issue, app-launch, each stage only after the stage before it
\* was answered with success, and none after the call has returned
C4_Order ==
  /\ \A j, k \in 1..Len(gnc.reqs) :
       j < k => Stage(gnc.reqs[j][1]) <= Stage(gnc.reqs[k][1])
  /\ \A k \in 1..Len(gnc.reqs) :
       /\ gnc.reqs[k][1] = "issue_jwt" =>
            \E j \in 1..(k - 1) : gnc.reqs[j] = <<"bearer", "tokens">>
       /\ gnc.reqs[k][1] = "app_launch" =>
            \E j \in 1..(k - 1) : gnc.reqs[j] = <<"issue_jwt", "200">>
       /\ gnc.reqs[k][1] = "bearer" => k = 1
       /\ (gnc.reqs[k][2] \notin Failing /\ k < Len(gnc.reqs)) =>
            Stage(gnc.reqs[k + 1][1]) = Stage(gnc.reqs[k][1]) + 1
  /\ gnc.ret \in {"False", "raised"} =>
       /\ pc \notin {"GetBearerToken", "UseBearerToken", "AfterIssueJwt",
                     "GetUser", "AfterAppLaunch", "ParseExpiry",
                     "PostMessageWithRetries"}
       /\ \A j, k \in Idx :
            (j < k /\ trace[j].e = "GetNestCredentials"
               /\ trace[j].r # "True") => ~IsReq(k)

\* the cached expiry is given a value only by the expiry step of a call
\* whose three network steps were all answered with success
C4_Assign ==
  (cache_expiration' # cache_expiration /\ cache_expiration' # None
     /\ ~(\E d \in TickSteps : Tick(d)))
    => /\ pc = "ParseExpiry"
       /\ <<"bearer", "tokens">> = gnc.reqs[1]
       /\ \E k \in 1..Len(gnc.reqs) : gnc.reqs[k] = <<"issue_jwt", "200">>
       /\ gnc.reqs[Len(gnc.reqs)] = <<"app_launch", "200">>
       /\ gnc'.ret = "True"

\* C4: a refreshing GetNestCredentials runs bearer exchange, session
\* issue, user resolution and expiry computation in that order, each only
\* after the earlier ones succeeded; a failing step aborts the call and no
\* later request follows; the cached expiry is assigned only after the
\* three network steps succeeded.
C4_ExchangeInOrder == [](C4_Order) /\ [][C4_Assign]_vars

\* a call that ran the whole exchange, the session issue at its second
\* attempt, and stored the new expiry
C4_Witness ==
  /\ gnc.ret = "True" /\ cache_expiration = Some(ExpireAfter)
  /\ gnc.done = <<"bearer", "session", "user", "expiry">>
  /\ Len(gnc.reqs) = 4

(* ============================== C5 ===================================== *)
\* C5: whenever GetNestCredentials or UpdateDevices returns failure, the
\* error state is set: GetAccessError() right after is not 'All good'.
C5_FailureSetsError ==
  (pc = "done" /\ (gnc.ret = "False"
                     \/ (op.name = "UpdateDevices" /\ ret = "False")))
    => GetAccessError # Err("All good")

(* ============================== C6 ===================================== *)
Attempts == post.tags
FailureText(tag) == IF tag = "timeout" THEN Err("Connection timeout")
                    ELSE StatusErr(500)

\* what holds of every PostMessageWithRetries call, whatever the flag does:
\* no more than retries attempts, and the first 200 ends it with a response
C6_Bound ==
  /\ Len(Attempts) <= post.retries
  /\ \A k \in 1..Len(Attempts) :
       Attempts[k] = "200" => (k = Len(Attempts) /\ post.result = "Response")
  /\ post.result = "Response" =>
       (Attempts # <<>> /\ Attempts[Len(Attempts)] = "200")

AlwaysFailed == \A k \in 1..Len(Attempts) : Attempts[k] \in Failing

\* C6 as stated: against an endpoint that fails every attempt with a
\* status >= 500 or a timeout the call makes exactly retries attempts and
\* returns None with the last error recorded.
C6_ExactlyNAttempts ==
  /\ C6_Bound
  /\ (post.result = "None" /\ AlwaysFailed) =>
       /\ Len(Attempts) = post.retries
       /\ nest_access_error = FailureText(Attempts[Len(Attempts)])

\* C6 amended: the same, for a call during which the running flag stays
\* set; a call that finds the flag cleared returns None after fewer
\* attempts.
C6_RetryBound ==
  /\ C6_Bound
  /\ (post.result = "None" /\ AlwaysFailed /\ running) =>
       /\ Len(Attempts) = post.retries
       /\ nest_access_error = FailureText(Attempts[Len(Attempts)])
  /\ (post.result = "None" /\ AlwaysFailed
        /\ Len(Attempts) < post.retries) => ~running

\* a call with retries = MaxRetries whose attempts all failed
C6_Witness ==
  /\ post.result = "None" /\ running /\ AlwaysFailed
  /\ post.retries = MaxRetries /\ Len(Attempts) = MaxRetries

(* ============================== C7 ===================================== *)
\* C7: an attempt answered with a status other than 200 below 500 is the
\* last attempt of its call, the call returns None and the error text
\* holds that status code.
C7_ClientErrorNotRetried ==
  \A k \in 1..Len(Attempts) : \A c \in ClientCodes :
    Attempts[k] = ToString(c) =>
      /\ k = Len(Attempts)
      /\ post.result = "None"
      /\ nest_access_error = StatusErr(c)

\* a call with attempts to spare that stopped at its first attempt on 404
C7_Witness ==
  /\ Attempts = <<"404">> /\ post.retries > 1 /\ post.result = "None"

(* ============================== C8 ===================================== *)
\* C8: a command's PUT is sent only after GetNestCredentials returned
\* success in that command; when it returns failure the command returns
\* failure and sends no PUT.
C8_CredentialBeforePut ==
  op.name \in Commands =>
    /\ \A k \in PutIdx :
         \E j \in CmdStart(k)..k :
           trace[j].e = "GetNestCredentials" /\ trace[j].r = "True"
    /\ \A j \in Idx :
         (trace[j].e = "GetNestCredentials" /\ trace[j].r = "False") =>
           /\ \A k \in PutIdx : k < j
           /\ j < Len(trace)
           /\ trace[j + 1] = Note("UpdateNest", trace[j].k, "False")
           /\ (pc = "done" /\ trace[j].k = op.name) => ret = "False"

\* SetAway sent its structure PUT after a successful credential check,
\* and its SetEco sent none because its own credential check failed
C8_Witness ==
  /\ op.name = "SetAway" /\ pc = "done"
  /\ PutsTo("structure") # {} /\ PutsTo("device") = {}
  /\ gnc.ret = "False" /\ gnc.reqs # <<>>

(* ============================== C9 ===================================== *)
\* C9: in SetAway the structure PUT comes before the eco PUT, the eco PUT
\* is sent only after the structure PUT succeeded, and never when is_away
\* or eco_when_away is false.
C9_AwayThenEco ==
  op.name = "SetAway" =>
    /\ \A d \in PutsTo("device") :
         /\ op.is_away /\ op.eco_when_away
         /\ \E s \in PutsTo("structure") : s < d /\ trace[s].r = "200"
    /\ \A s \in PutsTo("structure"), d \in PutsTo("device") : s < d

\* SetAway(id, true, true) sent both PUTs
C9_Witness ==
  /\ op.name = "SetAway" /\ op.is_away /\ op.eco_when_away /\ pc = "done"
  /\ PutsTo("structure") # {} /\ PutsTo("device") # {}

(* ============================== C10 ==================================== *)
EcoFailed ==
  /\ op.name = "SetAway"
  /\ \E s \in PutsTo("structure") : trace[s].r = "200"
  /\ \E d \in PutsTo("device") : trace[d].r \in {"401", "404", "500", "timeout"}

\* C10: when the structure PUT succeeded and the eco PUT fails, nothing is
\* sent after the failed eco PUT, and once SetAway has returned
\* GetAccessError() is not 'All good'.
C10_NoRollback ==
  EcoFailed =>
    /\ \A d \in PutsTo("device") : d = SetMax(ReqIdx)
    /\ Cardinality(PutsTo("structure")) = 1
    /\ pc = "done" => GetAccessError # Err("All good")

\* SetAway returned after its eco PUT timed out
C10_Witness ==
  /\ EcoFailed /\ pc = "done"
  /\ \E d \in PutsTo("device") : trace[d].r = "timeout"

(* ============================== C11 ==================================== *)
\* the public call in hand began with the running flag cleared
BegunStopped == trace # <<>> /\ trace[1].r = "stopped"
Polls == {"UpdateDevices", "GetOutsideTempHum"}
NewRequest ==
  /\ Len(trace') > Len(trace)
  /\ \E k \in (Len(trace) + 1)..Len(trace') : trace'[k].e = "request"

\* C11: once terminate() has cleared the running flag no request is
\* started: an UpdateDevices, a device command or a GetOutsideTempHum that
\* begins afterwards returns failure without a request.
C11_CancelledCallsFail ==
  (pc = "done" /\ BegunStopped /\ op.name \in Polls \cup Commands)
    => (ret = "False" /\ ReqIdx = {})

\* the part of C11 that does hold: with the flag cleared no step sends a
\* request, no call that began afterwards succeeds, and the flag stays
\* cleared
C11_NoRequestOnceCleared ==
  /\ [](BegunStopped => (ReqIdx = {} /\ ret \notin {"True", "Response", "info"}))
  /\ [][~running => (~running' /\ ~NewRequest)]_vars

(* ============================== C12 ==================================== *)
\* C12: every device command returns a boolean and never lets an
\* exception through, whatever the state it is called in and whatever the
\* transport answers.
C12_CommandsReturnBoolean ==
  (pc = "done" /\ op.name \in Commands) => ret \in {"True", "False"}

(* ============================== C13 ==================================== *)
Excepted == \E k \in Idx : trace[k].e = "except"

\* C13: UpdateDevices returns a boolean under every transport outcome and
\* response shape, and returns false with the last-error string set when
\* an exception occurred inside.
C13_UpdateDevicesNeverRaises ==
  op.name = "UpdateDevices" =>
    /\ pc = "done" => ret \in {"True", "False"}
    /\ ret # "raised" /\ gnc.ret = "raised" => pc = "done"
    /\ (gnc.ret = "raised" \/ Excepted) =>
         /\ Excepted /\ pc = "done" /\ ret = "False"
         /\ nest_access_error = Unforseen
         /\ GetAccessError # Err("All good")

\* UpdateDevices returned false after the exchange succeeded in its three
\* requests and the expiry text did not parse
C13_Witness ==
  /\ op.name = "UpdateDevices" /\ pc = "done" /\ ret = "False" /\ Excepted
  /\ gnc.done = <<"bearer", "session", "user">> /\ gnc.ret = "raised"

(* ============================== C14 ==================================== *)
\* the ids of the members of one type of a swarm, in swarm order
RECURSIVE IdsOf(_, _)
IdsOf(swarm, type) ==
  IF swarm = <<>> THEN <<>>
  ELSE (IF Head(swarm)[1] = type THEN <<Head(swarm)[2]>> ELSE <<>>)
         \o IdsOf(Tail(swarm), type)

\* the positions of the structure buckets of a snapshot
StructureAt(body) ==
  IF "updated_buckets" \notin DOMAIN body THEN {}
  ELSE {k \in 1..Len(body.updated_buckets) :
          body.updated_buckets[k].object_key[1] = "structure"}
SetMin(S) == CHOOSE x \in S : \A y \in S : x <= y

\* the lists are those of the swarm of the first structure bucket of body,
\* empty when it has none
ListsAre(body) ==
  IF StructureAt(body) = {}
  THEN device_list = <<>> /\ protect_list = <<>>
  ELSE LET first == body.updated_buckets[SetMin(StructureAt(body))]
       IN /\ device_list = IdsOf(first.value.swarm, "device")
          /\ protect_list = IdsOf(first.value.swarm, "topaz")

Polled == op.name = "UpdateDevices" /\ pc = "done" /\ ret = "True"

\* C14: after a successful UpdateDevices device_list and protect_list are
\* the ids of the device and topaz members of the swarm of the first
\* structure bucket of the snapshot just fetched, in swarm order, and both
\* are empty when that snapshot has no structure bucket.
C14_DevicePartition ==
  Polled =>
    /\ request # None /\ status = request
    /\ ListsAre(request[1])
    /\ request[1] = SnapHome =>
         (device_list = <<"A", "C">> /\ protect_list = <<"B">>)
    /\ request[1] \in {SnapBare, Garbage} =>
         (device_list = <<>> /\ protect_list = <<>>)

\* a poll that fetched the home of two structures
C14_Witness ==
  /\ Polled /\ request = Some(SnapHome)
  /\ device_list = <<"A", "C">> /\ protect_list = <<"B">>

(* ============================== C15 ==================================== *)
ThermostatKeys ==
  {"Target_temperature", "Current_temperature", "Temperature_scale",
   "Humidity", "Eco", "Heating", "Target_mode", "Target_temperature_low",
   "Target_temperature_high", "Where", "Auto_away"}
ProtectKeys ==
  {"Smoke_status", "Co_status", "Heat_status", "Serial_number",
   "Co_previous_peak", "Where", "Battery_low", "Battery_level"}
NestKeys == {"Name", "Away", "City", "Country_code", "Postal_code"}
Views ==
  {"GetThermostatInformation", "GetProtectInformation", "GetNestInformation"}

\* the buckets of the stored snapshot, as a set
Stored ==
  IF status = None \/ "updated_buckets" \notin DOMAIN status[1] THEN {}
  ELSE {status[1].updated_buckets[k] :
          k \in 1..Len(status[1].updated_buckets)}
Has(type, id) == \E b \in Stored : b.object_key = <<type, id>>
ValueOf(type, id) ==
  (CHOOSE b \in Stored : b.object_key = <<type, id>>).value
\* a where bucket of the structure names the where id
Named(sid, id) ==
  /\ Has("where", sid)
  /\ \E k \in 1..Len(ValueOf("where", sid).wheres) :
       ValueOf("where", sid).wheres[k].where_id = id

\* everything the thermostat view of device d reads is in the snapshot
ThermostatComplete(d) ==
  /\ Has("link", d) /\ Has("shared", d) /\ Has("device", d)
  /\ SharedFields \subseteq DOMAIN ValueOf("shared", d)
  /\ DeviceFields \subseteq DOMAIN ValueOf("device", d)
  /\ Named(ValueOf("link", d).structure[2], ValueOf("device", d).where_id)

\* everything the protect view of device d reads is in the snapshot
ProtectComplete(d) ==
  /\ Has("topaz", d)
  /\ TopazFields \subseteq DOMAIN ValueOf("topaz", d)
  /\ \E b \in Stored :
       /\ b.object_key[1] = "structure"
       /\ \E k \in 1..Len(b.value.swarm) : b.value.swarm[k] = <<"topaz", d>>
       /\ \E f \in {"spoken_where_id", "where_id"} :
            /\ f \in DOMAIN ValueOf("topaz", d)
            /\ Named(b.object_key[2], ValueOf("topaz", d)[f])

\* everything the structure view reads is in the snapshot
NestComplete ==
  \E b \in Stored :
    b.object_key[1] = "structure" /\ StructureFields \subseteq DOMAIN b.value

Viewed(name) == pc = "done" /\ op.name = name

\* a view returns a dict that is empty or complete: empty exactly when
\* something it reads is missing
C15_EmptyOrComplete ==
  /\ \A name \in Views : Viewed(name) => (ret = "info" /\ info # None)
  /\ Viewed("GetThermostatInformation") =>
       IF ThermostatComplete(op.device_id)
       THEN DOMAIN info[1] = ThermostatKeys
       ELSE DOMAIN info[1] = {}
  /\ Viewed("GetProtectInformation") =>
       IF ProtectComplete(op.device_id)
       THEN DOMAIN info[1] = ProtectKeys
       ELSE DOMAIN info[1] = {}
  /\ Viewed("GetNestInformation") =>
       IF NestComplete THEN DOMAIN info[1] = NestKeys
       ELSE DOMAIN info[1] = {}

\* a step that is a call of a view writes nothing of the object
C15_Frame ==
  (pc = "idle" /\ pc' = "done" /\ op'.name \in Views)
    => UNCHANGED <<creds, cache_expiration, snap, nest_access_error, running>>

\* C15: for every stored snapshot, none included, and every device id the
\* three views raise nothing and return an empty result when a bucket or
\* field they need is missing, the complete set of fields otherwise, never
\* a partly filled one; they change neither snapshot, credential nor error
\* state.
C15_FailSoftViews == []C15_EmptyOrComplete /\ [][C15_Frame]_vars

\* the thermostat view of a snapshot that holds the link and the shared
\* bucket of the device, but a device bucket short of a field
C15_Witness ==
  /\ Viewed("GetThermostatInformation") /\ op.device_id = "A"
  /\ Has("link", "A") /\ Has("shared", "A") /\ Has("device", "A")
  /\ SharedFields \subseteq DOMAIN ValueOf("shared", "A")
  /\ ~(DeviceFields \subseteq DOMAIN ValueOf("device", "A"))
  /\ Has("where", "S1")
  /\ DOMAIN info[1] = {}

(* ============================== C16 ==================================== *)
\* the structure view of the stored snapshot is empty, or one of the two
\* codes it gives is the empty string
NoPlace ==
  \/ ~NestComplete
  \/ \E b \in Stored :
       /\ b.object_key[1] = "structure"
       /\ StructureFields \subseteq DOMAIN b.value
       /\ (b.value.postal_code = "" \/ b.value.country_code = "")

\* C16: GetOutsideTempHum returns a failure result and issues no forecast
\* request when the postal code or the country code of the structure is
\* blank or the structure view is empty, and it raises in neither case.
C16_BlankCodesNoRequest ==
  Viewed("GetOutsideTempHum") =>
    /\ ret # "raised"
    /\ NoPlace => (ret = "False" /\ ReqIdx = {})

(* ============================== C17 ==================================== *)
\* the PUTs of the command in hand: no credential is written between such
\* a PUT and the return of its command
PutsInHand == {k \in PutIdx : \A j \in Idx : j > k => trace[j].e # "call"}

\* C17: the PUT of a command goes to the transport URL of the credential
\* in force when it is sent, the one of the exchange whose session token is
\* in its Authorization header.
C17_PutToCurrentTransport ==
  \A k \in PutsInHand :
    trace[k].u = transport_url[1] /\ trace[k].a = nest_access_token[1]

(* ============================== C18 ==================================== *)
\* C18: a command's PUT that meets HTTP >= 500 or a timeout is attempted
\* again, up to the retries of UpdateNest (2 attempts in all), before the
\* command returns failure.
C18_PutRetried ==
  (post.kind = "put" /\ post.result = "None" /\ running
     /\ Attempts # <<>> /\ AlwaysFailed)
    => Len(Attempts) = UpdateNestRetries

(* ============================== C19 ==================================== *)
Count(kind) == Cardinality({k \in ReqIdx : trace[k].k = kind})
BearerGets ==
  Cardinality({k \in 1..Len(gnc.reqs) : gnc.reqs[k][1] = "bearer"})
\* the most requests of one GetNestCredentials call
ExchangeMost == 1 + ExchangeRetries + ExchangeRetries

\* the requests of the public call in hand stay within its bound
C19_Requests ==
  /\ BearerGets <= 1
  /\ Len(gnc.reqs) <= ExchangeMost
  /\ op.name = "UpdateDevices" =>
       /\ Count("bearer") <= 1
       /\ Count("issue_jwt") <= ExchangeRetries
       /\ Count("app_launch") <= ExchangeRetries
       /\ Count("status") <= ExchangeRetries
       /\ Cardinality(ReqIdx) <= ExchangeMost + ExchangeRetries
       /\ Cardinality(ReqIdx) <= 7
  /\ op.name \in Commands \ {"SetAway"} =>
       Cardinality(ReqIdx) <= ExchangeMost + DefaultRetries
  /\ op.name = "SetAway" =>
       Cardinality(ReqIdx) <= 2 * (ExchangeMost + DefaultRetries)
  /\ op.name = "PostMessageWithRetries" => Cardinality(ReqIdx) <= op.retries
  /\ op.name = "GetOutsideTempHum" => Cardinality(ReqIdx) <= 1

\* how far a call is from its return: the steps ahead of the point it is
\* at, the attempts left of the POST it is in, and the SetEco that SetAway
\* may still make
Order ==
  CASE pc = "GetNestCredentials" -> 16
    [] pc = "GetBearerToken" -> 15
    [] pc = "UseBearerToken" -> 14
    [] pc = "PostMessageWithRetries" /\ post.kind = "issue_jwt" -> 13
    [] pc = "AfterIssueJwt" -> 12
    [] pc = "GetUser" -> 11
    [] pc = "PostMessageWithRetries" /\ post.kind = "app_launch" -> 10
    [] pc = "AfterAppLaunch" -> 9
    [] pc = "ParseExpiry" -> 8
    [] pc = "GetDevicesAndStatus" -> 7
    [] pc = "GetStatusUserBuckets" -> 6
    [] pc = "PostMessageWithRetries" /\ post.kind = "status" -> 5
    [] pc = "AfterStatus" -> 4
    [] pc = "PostMessageWithRetries" -> 3
    [] pc = "AfterPut" -> 2
    [] pc = "SetEco" -> 1
    [] OTHER -> 0
Weight == MaxRetries + 2
Rank ==
  (IF op.name = "SetAway" /\ cmd = "SetAway" THEN 17 * Weight ELSE 0)
  + Order * Weight
  + (IF pc = "PostMessageWithRetries" THEN post.retries - i ELSE 0)

\* every step of a call brings it nearer to its return
C19_Step ==
  (pc \notin {"idle", "done"} /\ (pc' # pc \/ i' # i))
    => (Rank' < Rank /\ Rank' >= 0)

\* C19: every top-level call ends after a bounded number of requests
\* whatever the server answers: one UpdateDevices sends at most 7 (1 bearer
\* GET, at most 2 session-issue, 2 app-launch and 2 snapshot POSTs), and
\* the bearer GET is made at most once in a GetNestCredentials call.
C19_BoundedRequests == []C19_Requests /\ [][C19_Step]_vars

\* an UpdateDevices that sent its 7 requests
C19_Witness ==
  /\ op.name = "UpdateDevices" /\ pc = "done" /\ Cardinality(ReqIdx) = 7
  /\ Count("bearer") = 1 /\ Count("status") = 2

(* ============================== C20 ==================================== *)
Credential ==
  <<access_token, access_token_type, id_token, nest_access_token,
    nest_user_id, transport_url, user>>

\* with the cached expiry set, every field of the credential is set
C20_Complete ==
  cache_expiration # None => \A k \in 1..Len(Credential) : Credential[k] # None

\* no step unsets a field of the credential, and a step that clears the
\* cached expiry is a POST attempt answered 401
C20_Step ==
  /\ \A k \in 1..Len(Credential) : Credential[k] # None => Credential'[k] # None
  /\ (cache_expiration # None /\ cache_expiration' = None) =>
       /\ pc = "PostMessageWithRetries"
       /\ \E k \in (Len(trace) + 1)..Len(trace') :
            trace'[k].e = "request" /\ trace'[k].r = "401"

\* C20: whenever the cached expiry is set, bearer token, token type, id
\* token, session token, user id, transport URL and user key are all set;
\* no operation resets one of them to unset, and only a 401 response
\* clears the expiry.
C20_CredentialInvariant == []C20_Complete /\ [][C20_Step]_vars

\* a 401 has cleared the expiry of a complete credential, obtained from an
\* app-launch answer without user bucket
C20_Witness ==
  /\ cache_expiration = None /\ seen401 # "no"
  /\ \A k \in 1..Len(Credential) : Credential[k] # None

(* ============================== C21 ==================================== *)
\* gnc.changed tells that a step of the GetNestCredentials call in hand has
\* stored in one of these fields a value other than the one it held; each
\* field is written at most once in a call, so it is set exactly when the
\* fields differ from what they were when the call began
\* C21: a GetNestCredentials call that returns failure leaves bearer
\* token, token type, id token, session token, user id, expiry text,
\* transport URL, user key and cached expiry as they were before the call.
C21_FailedCallLeavesCredential == gnc.ret = "False" => ~gnc.changed

(* ============================== C22 ==================================== *)
\* the lists are those of the stored snapshot that the views read
ListsAgree ==
  IF status = None THEN device_list = <<>> /\ protect_list = <<>>
  ELSE ListsAre(status[1])

\* C22: after every UpdateDevices call, successful or failed, device_list
\* and protect_list are the device and topaz members of the swarm of the
\* first structure bucket of the stored snapshot.
C22_ListsMatchSnapshot ==
  (op.name = "UpdateDevices" /\ pc = "done") => ListsAgree

====
